---- MODULE Spec2Model ----
(***************************************************************************)
(* Model of research-agent: the reference-numbering PDF renderer            *)
(* (utils/pdf.py, utils/pdf_utils.py), the /query endpoint (serve.py), the  *)
(* vector-store tools (mcp/tools.py) and the terminal demo                  *)
(* (utils/streaming.py).  Text is a sequence of one-character strings; the  *)
(* two regular expressions of _process_urls_in_markdown are modelled        *)
(* character by character, as Python's re.sub evaluates them.               *)
(***************************************************************************)
EXTENDS Integers, Sequences, FiniteSets, TLC

VARIABLES url_references, reference_counter, call, threads, file,
          doc, request, tool, demo

vars == <<url_references, reference_counter, call, threads, file,
          doc, request, tool, demo>>

\* the parts of the state outside the renderer's reference pass
elsewhere == <<doc, request, tool, demo>>

\* nothing of them is in use
ElsewhereIdle ==
    /\ doc = [pc |-> "idle"]
    /\ request = [pc |-> "idle"]
    /\ tool = [pc |-> "idle"]
    /\ demo = [pc |-> "idle"]

----------------------------------------------------------------------------
(* Characters and character classes                                        *)

Lower == {"a","b","c","d","e","f","g","h","i","j","k","l","m",
          "n","o","p","q","r","s","t","u","v","w","x","y","z"}

Upper == {"A","B","C","D","E","F","G","H","I","J","K","L","M",
          "N","O","P","Q","R","S","T","U","V","W","X","Y","Z"}

DigitChars == <<"0","1","2","3","4","5","6","7","8","9">>

Digits == {DigitChars[i] : i \in 1..10}

\* str.isalnum() on the characters of the model's alphabet
IsAlnum(c) == c \in Lower \cup Upper \cup Digits

\* \w of the re module: alphanumerics and the underscore
IsWord(c) == IsAlnum(c) \/ c = "_"

\* \s of the re module
IsSpace(c) == c \in {" ", "\t", "\n", "\r"}

\* the character class of url_pattern: not white space, <, >, ", [ or ]
IsUrlChar(c) == ~IsSpace(c) /\ c \notin {"<", ">", "\"", "[", "]"}

Min(S) == CHOOSE x \in S : \A y \in S : x <= y

Max(S) == CHOOSE x \in S : \A y \in S : x >= y

\* s has p as a substring starting at index i
HasAt(s, i, p) ==
    /\ i >= 1
    /\ i + Len(p) - 1 <= Len(s)
    /\ \A k \in 1..Len(p) : s[i + k - 1] = p[k]

\* str.startswith
StartsWith(s, p) == HasAt(s, 1, p)

\* str.endswith
EndsWith(s, p) == Len(p) <= Len(s) /\ HasAt(s, Len(s) - Len(p) + 1, p)

\* smallest index >= from where s holds character c, 0 when there is none
FirstIndex(s, c, from) ==
    LET S == {j \in from..Len(s) : s[j] = c}
    IN IF S = {} THEN 0 ELSE Min(S)

RECURSIVE ToDigits(_)
\* str(n) of a natural number n, as f"{ref.number}" formats it
ToDigits(n) ==
    IF n < 10 THEN <<DigitChars[n + 1]>>
    ELSE ToDigits(n \div 10) \o <<DigitChars[(n % 10) + 1]>>

\* f"[{ref.number}]"
Marker(n) == <<"[">> \o ToDigits(n) \o <<"]">>

WWW == <<"w","w","w",".">>

HTTP == <<"h","t","t","p",":","/","/">>

HTTPS == <<"h","t","t","p","s",":","/","/">>

----------------------------------------------------------------------------
(* pdf_utils.py: extract_domain and URLReference                           *)

\* the characters that end the netloc in urllib.parse._splitnetloc
NetLocEnd == {"/", "?", "#"}

\* urlparse(u).netloc for a u that starts with http:// or https://
NetLoc(u) ==
    LET from == IF StartsWith(u, HTTPS) THEN Len(HTTPS) + 1 ELSE Len(HTTP) + 1
        S == {j \in from..Len(u) : u[j] \in NetLocEnd}
        to == IF S = {} THEN Len(u) ELSE Min(S) - 1
    IN SubSeq(u, from, to)

\* urlsplit raises ValueError("Invalid IPv6 URL") for a netloc holding one
\* kind of square bracket without the other
NetLocRaises(n) ==
    LET open == \E j \in 1..Len(n) : n[j] = "["
        close == \E j \in 1..Len(n) : n[j] = "]"
    IN open # close

RECURSIVE RemoveAll(_, _)
\* s.replace(p, ""): every non-overlapping occurrence of p, left to right
RemoveAll(s, p) ==
    IF Len(s) < Len(p) THEN s
    ELSE IF HasAt(s, 1, p) THEN RemoveAll(SubSeq(s, Len(p) + 1, Len(s)), p)
    ELSE <<s[1]>> \o RemoveAll(Tail(s), p)

\* extract_domain(url)
extract_domain(url) ==
    LET u == IF StartsWith(url, HTTP) \/ StartsWith(url, HTTPS)
             THEN url ELSE HTTPS \o url
        n == NetLoc(u)
        d == RemoveAll(n, WWW)
    IN IF NetLocRaises(n) THEN u
       ELSE IF d # <<>> THEN d ELSE u

\* URLReference(url, title, number)
URLReference(url, title, number) ==
    [url |-> url,
     title |-> IF title # <<>> THEN title ELSE extract_domain(url),
     number |-> number]

----------------------------------------------------------------------------
(* The reference mapping: a Python dict, which keeps insertion order.      *)
(* It is a sequence of URLReference records, keyed by their url.           *)

\* url in self.url_references
HasKey(refs, url) == \E k \in 1..Len(refs) : refs[k].url = url

\* self.url_references[url]; a missing key is a KeyError, which the callers
\* below rule out before they read
GetRef(refs, url) == refs[CHOOSE k \in 1..Len(refs) : refs[k].url = url]

\* self.url_references[url] = ref: a new key is appended, a present key
\* keeps its place and gets the new value
StoreRef(refs, url, ref) ==
    IF HasKey(refs, url)
    THEN [k \in 1..Len(refs) |-> IF refs[k].url = url THEN ref ELSE refs[k]]
    ELSE Append(refs, ref)

----------------------------------------------------------------------------
(* pdf.py: link_pattern, the markdown link: "[", any run of characters     *)
(* other than "]" (group 1), "](", one or more characters other than ")"   *)
(* (group 2), ")"                                                          *)

\* index of the "]" that closes the link text of a match starting at i
LinkTextClose(s, i) == FirstIndex(s, "]", i + 1)

\* last index of the match of link_pattern that starts at i, 0 when the
\* pattern does not match there.  Both classes exclude the character that
\* must follow them, so the greedy match is the only one.
LinkEnd(s, i) ==
    IF i > Len(s) \/ s[i] # "[" THEN 0
    ELSE LET j == LinkTextClose(s, i)
         IN IF j = 0 \/ j + 1 > Len(s) \/ s[j + 1] # "(" THEN 0
            ELSE LET k == FirstIndex(s, ")", j + 2)
                 IN IF k = 0 \/ k = j + 2 THEN 0 ELSE k

\* match.group(1) of the match starting at i
LinkText(s, i) == SubSeq(s, i + 1, LinkTextClose(s, i) - 1)

\* match.group(2) of the match starting at i
LinkUrl(s, i) == SubSeq(s, LinkTextClose(s, i) + 2, LinkEnd(s, i) - 1)

\* start of the leftmost match at or after from, 0 when there is none
NextLink(s, from) ==
    LET S == {i \in from..Len(s) : LinkEnd(s, i) # 0}
    IN IF S = {} THEN 0 ELSE Min(S)

\* replace_link(match) on the instance state (refs, counter): the new state,
\* the replacement text, and whether a reference was created
replace_link(refs, counter, whole, link_text, url) ==
    IF StartsWith(url, <<"#">>)
    THEN [refs |-> refs, counter |-> counter, repl |-> whole, created |-> FALSE]
    ELSE LET absent == ~HasKey(refs, url)
             title == IF link_text # <<>> THEN link_text ELSE extract_domain(url)
             refs1 == IF absent
                      THEN StoreRef(refs, url, URLReference(url, title, counter))
                      ELSE refs
             counter1 == IF absent THEN counter + 1 ELSE counter
         IN [refs |-> refs1, counter |-> counter1,
             repl |-> Marker(GetRef(refs1, url).number), created |-> absent]

----------------------------------------------------------------------------
(* pdf.py: url_pattern, the bare URL: not preceded by "[", at a word       *)
(* boundary, one of http://, https://, www. and then one or more           *)
(* characters other than white space, <, >, double quote, "[" and "]",     *)
(* not followed by "]"                                                     *)

\* \b at index i: exactly one of the characters around it is a word character
WordBoundary(s, i) ==
    (i > 1 /\ IsWord(s[i - 1])) # (i <= Len(s) /\ IsWord(s[i]))

\* length of the match of (?:https?://|www\.) at i, 0 when there is none
BarePrefixLen(s, i) ==
    IF HasAt(s, i, HTTPS) THEN Len(HTTPS)
    ELSE IF HasAt(s, i, HTTP) THEN Len(HTTP)
    ELSE IF HasAt(s, i, WWW) THEN Len(WWW)
    ELSE 0

\* last index of the maximal run of class characters that starts at from
\* (from - 1 when s[from] is not in the class)
RunEnd(s, from) ==
    LET S == {j \in from..Len(s) : ~IsUrlChar(s[j])}
    IN IF S = {} THEN Len(s) ELSE Min(S) - 1

\* last index of the match of url_pattern that starts at i, 0 when the pattern
\* does not match there.  The run is greedy; when a "]" follows it, (?!\])
\* fails and the run gives back one character, if it has one to give.
BareEnd(s, i) ==
    IF i > Len(s) THEN 0
    ELSE IF i > 1 /\ s[i - 1] = "[" THEN 0
    ELSE IF ~WordBoundary(s, i) THEN 0
    ELSE LET p == BarePrefixLen(s, i)
             e == RunEnd(s, i + p)
         IN IF p = 0 \/ e < i + p THEN 0
            ELSE IF e < Len(s) /\ s[e + 1] = "]"
                 THEN (IF e - 1 >= i + p THEN e - 1 ELSE 0)
                 ELSE e

\* start of the leftmost match at or after from, 0 when there is none
NextBare(s, from) ==
    LET S == {i \in from..Len(s) : BareEnd(s, i) # 0}
    IN IF S = {} THEN 0 ELSE Min(S)

\* replace_bare_url without its membership test: every match registers
replace_bare_url_unchecked(refs, counter, url) ==
    LET refs1 == StoreRef(refs, url, URLReference(url, extract_domain(url), counter))
    IN [refs |-> refs1, counter |-> counter + 1,
        repl |-> Marker(GetRef(refs1, url).number), created |-> TRUE]

\* replace_bare_url(match) on the instance state (refs, counter)
replace_bare_url(refs, counter, url) ==
    LET absent == ~HasKey(refs, url)
        refs1 == IF absent
                 THEN StoreRef(refs, url, URLReference(url, extract_domain(url), counter))
                 ELSE refs
        counter1 == IF absent THEN counter + 1 ELSE counter
    IN [refs |-> refs1, counter |-> counter1,
        repl |-> Marker(GetRef(refs1, url).number), created |-> absent]

----------------------------------------------------------------------------
(* pdf.py: _process_urls_in_markdown.  The two re.sub calls walk the text   *)
(* left to right; st carries the instance state (refs, counter), the text   *)
(* built so far (out) and two records of what was done: orig gives, for     *)
(* each character of out, its index in the content (0 for a character of a  *)
(* substituted marker), and sites lists the callback invocations.           *)

\* the sequence a, a+1, .., b
Range(a, b) == [k \in 1..(b - a + 1) |-> a + k - 1]

Zeros(n) == [k \in 1..n |-> 0]

\* the reset left out: the state of the last document is kept
reset_state_kept(refs, counter) == [refs |-> refs, counter |-> counter]

\* Reset references for each document
reset_state(refs, counter) == [refs |-> <<>>, counter |-> 1]

\* F applied to the value of v, with v evaluated once
Bind(v, F(_)) == CHOOSE y \in {F(x) : x \in {v}} : TRUE

\* one step of re.sub(link_pattern, replace_link, content): the match that
\* starts at i, found from index pos, is replaced
LinkStep(s, pos, st, i) ==
    Bind(<<LinkEnd(s, i), LinkUrl(s, i)>>, LAMBDA m :
    Bind(replace_link(st.refs, st.counter, SubSeq(s, i, m[1]), LinkText(s, i), m[2]),
         LAMBDA r :
         LET anchor == StartsWith(m[2], <<"#">>)
             site == [pass |-> "link", ostart |-> i, oend |-> m[1], url |-> m[2],
                      text |-> LinkText(s, i),
                      repl |-> r.repl, created |-> r.created, anchor |-> anchor]
         IN [refs |-> r.refs, counter |-> r.counter,
             out |-> st.out \o SubSeq(s, pos, i - 1) \o r.repl,
             orig |-> st.orig \o Range(pos, i - 1)
                        \o (IF anchor THEN Range(i, m[1]) ELSE Zeros(Len(r.repl))),
             sites |-> Append(st.sites, site),
             next |-> m[1] + 1]))

RECURSIVE LinkPass(_, _, _)
\* re.sub(link_pattern, replace_link, content), from index pos on
LinkPass(s, pos, st) ==
    Bind(NextLink(s, pos), LAMBDA i :
        IF i = 0
        THEN [st EXCEPT !.out = @ \o SubSeq(s, pos, Len(s)),
                        !.orig = @ \o Range(pos, Len(s))]
        ELSE Bind(LinkStep(s, pos, st, i), LAMBDA t : LinkPass(s, t.next, t)))

\* one step of re.sub(url_pattern, replace_bare_url, processed): the match
\* that starts at i, found from index pos, is replaced; o is the orig of s
BareStep(s, o, pos, st, i) ==
    Bind(BareEnd(s, i), LAMBDA e :
    Bind(replace_bare_url(st.refs, st.counter, SubSeq(s, i, e)), LAMBDA r :
         LET site == [pass |-> "bare", ostart |-> o[i], oend |-> o[e],
                      url |-> SubSeq(s, i, e), text |-> <<>>,
                      repl |-> r.repl, created |-> r.created, anchor |-> FALSE]
         IN [refs |-> r.refs, counter |-> r.counter,
             out |-> st.out \o SubSeq(s, pos, i - 1) \o r.repl,
             orig |-> st.orig \o SubSeq(o, pos, i - 1) \o Zeros(Len(r.repl)),
             sites |-> Append(st.sites, site),
             next |-> e + 1]))

RECURSIVE BarePass(_, _, _, _)
\* re.sub(url_pattern, replace_bare_url, processed), from index pos on
BarePass(s, o, pos, st) ==
    Bind(NextBare(s, pos), LAMBDA i :
        IF i = 0
        THEN [st EXCEPT !.out = @ \o SubSeq(s, pos, Len(s)),
                        !.orig = @ \o SubSeq(o, pos, Len(s))]
        ELSE Bind(BareStep(s, o, pos, st, i), LAMBDA t : BarePass(s, o, t.next, t)))

\* _process_urls_in_markdown(content) on an instance in state (refs0, counter0)
process_urls_in_markdown(refs0, counter0, content) ==
    Bind(reset_state(refs0, counter0), LAMBDA r :
    Bind(LinkPass(content, 1, [refs |-> r.refs, counter |-> r.counter, out |-> <<>>,
                               orig |-> <<>>, sites |-> <<>>, next |-> 1]),
         LAMBDA a :
         BarePass(a.out, a.orig, 1, [a EXCEPT !.out = <<>>, !.orig = <<>>, !.next = 1])))

----------------------------------------------------------------------------
(* Inputs: a content is a concatenation of at most MaxPieces pieces         *)

MaxPieces == 3

Pieces ==
    { <<"w","w","w",".","a","b">>,
      <<"w","w","w",".","c">>,
      <<"h","t","t","p",":","/","/","w","w","w",".","a","b">>,
      <<"[","t","]","(","w","w","w",".","a","b",")">>,
      <<"[","]","(","w","w","w",".","c",")">>,
      <<"[">>,
      <<"]">>,
      <<"]","(","#","x",")">>,
      <<" ">>,
      <<"2">> }

RECURSIVE Concat(_)
Concat(ps) == IF ps = <<>> THEN <<>> ELSE Head(ps) \o Concat(Tail(ps))

ContentsOf(P, n) == {Concat(ps) : ps \in UNION {[1..m -> P] : m \in 0..n}}

ProcContents == ContentsOf(Pieces, MaxPieces)

----------------------------------------------------------------------------
(* State.  url_references and reference_counter are the fields of the       *)
(* ModernPDFGenerator instance; call is the call being served and what it   *)
(* returned, with the mapping it found on entry (before).                   *)

NoCall == [pc |-> "idle", content |-> <<>>, before |-> <<>>, processed |-> <<>>,
           orig |-> <<>>, sites |-> <<>>, references |-> <<>>]

NoFile == [pc |-> "idle"]

\* ModernPDFGenerator.__init__
InitInstance ==
    /\ url_references = <<>>
    /\ reference_counter = 1

\* _markdown_to_html_with_references(content): the numbering pass, then the
\* reference list read back from the instance
markdown_to_html_with_references(content) ==
    \E b \in {process_urls_in_markdown(url_references, reference_counter, content)} :
       /\ url_references' = b.refs
       /\ reference_counter' = b.counter
       /\ call' = [pc |-> "done", content |-> content, before |-> url_references,
                   processed |-> b.out, orig |-> b.orig, sites |-> b.sites,
                   references |-> b.refs]

(* SpecProcess: one call of the numbering pass on a freshly built instance, *)
(* for every content of ProcContents.                                       *)

InitProcess ==
    /\ InitInstance
    /\ call \in {[NoCall EXCEPT !.pc = "called", !.content = c] : c \in ProcContents}
    /\ threads = <<>>
    /\ file = NoFile
    /\ ElsewhereIdle

Process ==
    /\ call.pc = "called"
    /\ markdown_to_html_with_references(call.content)
    /\ UNCHANGED <<threads, file, elsewhere>>

NextProcess == Process

SpecProcess == InitProcess /\ [][NextProcess]_vars

(* Spec: the module-level pdf_generator, one instance serving one render    *)
(* after another.                                                           *)

MaxSeqPieces == 2

SeqPieces ==
    { <<"w","w","w",".","a","b">>,
      <<"[","t","]","(","w","w","w",".","a","b",")">>,
      <<"[","]","(","w","w","w",".","c",")">>,
      <<" ">> }

SeqContents == ContentsOf(SeqPieces, MaxSeqPieces)

Init ==
    /\ InitInstance
    /\ call = NoCall
    /\ threads = <<>>
    /\ file = NoFile
    /\ ElsewhereIdle

\* save_research_to_pdf(research_content=c) on pdf_generator, as far as the
\* instance and the references it hands to create_html_document go
Render(c) ==
    /\ markdown_to_html_with_references(c)
    /\ UNCHANGED <<threads, file, elsewhere>>

Next == \E c \in SeqContents : Render(c)

Spec == Init /\ [][Next]_vars

----------------------------------------------------------------------------
(* SpecConcurrent: two calls of _markdown_to_html_with_references on the    *)
(* one instance, run by two threads.  A thread may be switched between any  *)
(* two reads or writes of the instance's fields, so each such access is a   *)
(* step of its own; what a thread does between two accesses touches only    *)
(* its locals and is folded into the access that follows.                   *)

MaxConcPieces == 2

ConcPieces ==
    { <<"w","w","w",".","a","b">>,
      <<"[","]","(","w","w","w",".","c",")">> }

ConcContents == ContentsOf(ConcPieces, MaxConcPieces)

Threads == {1, 2}

\* locals of a thread: the pass it is in (phase), the text the pass reads and
\* the index it has reached, the text built so far, the match in hand (url,
\* title), the values it read from the counter (n, tmp), what it returns
\* (processed, references), the numbers it wrote into its text (used), and
\* whether the other thread ran during its call (disturbed); a local that
\* is dead is cleared
NewThread(c) ==
    [pc |-> "start", phase |-> "link", content |-> c, text |-> c, pos |-> 1,
     out |-> <<>>, url |-> <<>>, title |-> <<>>, n |-> 0, tmp |-> 0,
     processed |-> <<>>, references |-> <<>>, used |-> {}, disturbed |-> FALSE]

Running(l) == l.pc \notin {"start", "done", "failed"}

\* thread t moves to locals l; a thread in the middle of its call has been
\* run alongside
Step(t, l) ==
    threads' = [u \in Threads |->
                  IF u = t THEN l
                  ELSE IF Running(threads[u])
                       THEN [threads[u] EXCEPT !.disturbed = TRUE]
                       ELSE threads[u]]

InitConcurrent ==
    /\ InitInstance
    /\ call = NoCall
    /\ threads \in [Threads -> {NewThread(c) : c \in ConcContents}]
    /\ file = NoFile
    /\ ElsewhereIdle

\* line 121: self.url_references = {}
ResetRefs(t) ==
    /\ threads[t].pc = "start"
    /\ url_references' = reset_state(url_references, reference_counter).refs
    /\ Step(t, [threads[t] EXCEPT !.pc = "reset_counter"])
    /\ UNCHANGED <<reference_counter, call, file, elsewhere>>

\* line 122: self.reference_counter = 1
ResetCounter(t) ==
    /\ threads[t].pc = "reset_counter"
    /\ reference_counter' = reset_state(url_references, reference_counter).counter
    /\ Step(t, [threads[t] EXCEPT !.pc = "scan"])
    /\ UNCHANGED <<url_references, call, file, elsewhere>>

\* the locals after re.sub has found the next match of the link pass and
\* replace_link has run up to its test "url not in self.url_references"
\* (line 136); an anchor is put back as it is; with no match left the bare
\* pass begins on the text built
ScanLink(l, refs) ==
    LET i == NextLink(l.text, l.pos)
    IN IF i = 0
       THEN [l EXCEPT !.phase = "bare", !.text = l.out \o SubSeq(l.text, l.pos, Len(l.text)),
                      !.pos = 1, !.out = <<>>]
       ELSE LET k == LinkEnd(l.text, i)
                url == LinkUrl(l.text, i)
                link_text == LinkText(l.text, i)
            IN IF StartsWith(url, <<"#">>)
               THEN [l EXCEPT !.out = @ \o SubSeq(l.text, l.pos, k), !.pos = k + 1]
               ELSE [l EXCEPT !.out = @ \o SubSeq(l.text, l.pos, i - 1), !.pos = k + 1,
                              !.url = url,
                              !.title = IF link_text # <<>> THEN link_text
                                        ELSE extract_domain(url),
                              !.pc = IF HasKey(refs, url) THEN "lookup" ELSE "read_counter"]

\* the same for the bare pass and replace_bare_url (line 156); with no match
\* left _process_urls_in_markdown returns
ScanBare(l, refs) ==
    LET i == NextBare(l.text, l.pos)
    IN IF i = 0
       THEN [l EXCEPT !.processed = l.out \o SubSeq(l.text, l.pos, Len(l.text)),
                      !.text = <<>>, !.pos = 1, !.out = <<>>, !.pc = "return"]
       ELSE LET e == BareEnd(l.text, i)
                url == SubSeq(l.text, i, e)
            IN [l EXCEPT !.out = @ \o SubSeq(l.text, l.pos, i - 1), !.pos = e + 1,
                         !.url = url, !.title = extract_domain(url),
                         !.pc = IF HasKey(refs, url) THEN "lookup" ELSE "read_counter"]

Scan(t) ==
    /\ threads[t].pc = "scan"
    /\ Step(t, IF threads[t].phase = "link" THEN ScanLink(threads[t], url_references)
               ELSE ScanBare(threads[t], url_references))
    /\ UNCHANGED <<url_references, reference_counter, call, file, elsewhere>>

\* lines 140, 160: number=self.reference_counter
ReadCounter(t) ==
    /\ threads[t].pc = "read_counter"
    /\ Step(t, [threads[t] EXCEPT !.n = reference_counter, !.pc = "store"])
    /\ UNCHANGED <<url_references, reference_counter, call, file, elsewhere>>

\* lines 137, 157: self.url_references[url] = URLReference(...)
Store(t) ==
    /\ threads[t].pc = "store"
    /\ url_references' = StoreRef(url_references, threads[t].url,
                                  URLReference(threads[t].url, threads[t].title, threads[t].n))
    /\ Step(t, [threads[t] EXCEPT !.n = 0, !.title = <<>>, !.pc = "incr_read"])
    /\ UNCHANGED <<reference_counter, call, file, elsewhere>>

\* lines 142, 162: self.reference_counter += 1, the read
IncrRead(t) ==
    /\ threads[t].pc = "incr_read"
    /\ Step(t, [threads[t] EXCEPT !.tmp = reference_counter, !.pc = "incr_write"])
    /\ UNCHANGED <<url_references, reference_counter, call, file, elsewhere>>

\* lines 142, 162: self.reference_counter += 1, the write
IncrWrite(t) ==
    /\ threads[t].pc = "incr_write"
    /\ reference_counter' = threads[t].tmp + 1
    /\ Step(t, [threads[t] EXCEPT !.tmp = 0, !.pc = "lookup"])
    /\ UNCHANGED <<url_references, call, file, elsewhere>>

\* lines 144-146, 164-165: ref = self.url_references[url]; return "[n]".
\* A key that is gone raises KeyError, which ends the call.
Lookup(t) ==
    /\ threads[t].pc = "lookup"
    /\ Step(t, IF HasKey(url_references, threads[t].url)
               THEN LET n == GetRef(url_references, threads[t].url).number
                    IN [threads[t] EXCEPT !.out = @ \o Marker(n),
                                          !.used = @ \cup {<<threads[t].url, n>>},
                                          !.url = <<>>, !.title = <<>>, !.pc = "scan"]
               ELSE [threads[t] EXCEPT !.pc = "failed"])
    /\ UNCHANGED <<url_references, reference_counter, call, file, elsewhere>>

\* line 115: return html, list(self.url_references.values())
Return(t) ==
    /\ threads[t].pc = "return"
    /\ Step(t, [threads[t] EXCEPT !.references = url_references, !.pc = "done"])
    /\ UNCHANGED <<url_references, reference_counter, call, file, elsewhere>>

NextConcurrent ==
    \E t \in Threads :
        \/ ResetRefs(t)
        \/ ResetCounter(t)
        \/ Scan(t)
        \/ ReadCounter(t)
        \/ Store(t)
        \/ IncrRead(t)
        \/ IncrWrite(t)
        \/ Lookup(t)
        \/ Return(t)

SpecConcurrent == InitConcurrent /\ [][NextConcurrent]_vars

----------------------------------------------------------------------------
(* SpecTitle: one call of the numbering pass on a fresh instance, for       *)
(* contents made of a markdown link, written with and without link text,    *)
(* white space around the target, a scheme, a www. label and a path, alone  *)
(* or followed by a second link to, or a bare occurrence of, the same URL.  *)

TitleTexts == {<<>>, <<"t">>}

TitlePads == {<<>>, <<" ">>}

TitleSchemes == {<<>>, HTTP, HTTPS}

TitleHosts == {<<"e","x","a","m","p","l","e",".","c","o","m">>, <<"w","w","w",".","e","x","a","m","p","l","e",".","c","o","m">>, <<"a","w","w","w",".","a",".","c","o">>}

TitlePaths == {<<>>, <<"/","p","a","g","e">>}

TitleUrls ==
    {pad \o sch \o host \o path \o pad :
        pad \in TitlePads, sch \in TitleSchemes, host \in TitleHosts, path \in TitlePaths}

MarkdownLink(text, url) == <<"[">> \o text \o <<"]", "(">> \o url \o <<")">>

TitleTail(kind, url) ==
    IF kind = "link" THEN <<" ">> \o MarkdownLink(<<"s">>, url)
    ELSE IF kind = "bare" THEN <<" ">> \o url
    ELSE <<>>

TitleContents ==
    {MarkdownLink(text, url) \o TitleTail(kind, url) :
        text \in TitleTexts, url \in TitleUrls, kind \in {"none", "link", "bare"}}

\* the link of section 8 of the specification
SpecExample == <<"[","]","("," ","h","t","t","p","s",":","/","/","e","x","a","m","p","l","e",".","c","o","m","/","p","a","g","e"," ",")">>

InitTitle ==
    /\ InitInstance
    /\ call \in {[NoCall EXCEPT !.pc = "called", !.content = c] : c \in TitleContents}
    /\ threads = <<>>
    /\ file = NoFile
    /\ ElsewhereIdle

SpecTitle == InitTitle /\ [][NextProcess]_vars

----------------------------------------------------------------------------
(* pdf.py: the file name of save_research_to_pdf (lines 49-60)              *)

\* query[:50]
QueryPrefix == 50

\* c.isalnum() or c in (" ", "-", "_")
Keep(c) == IsAlnum(c) \/ c \in {" ", "-", "_"}

RECURSIVE JoinKept(_)
\* "".join(c for c in s if c.isalnum() or c in (" ", "-", "_"))
JoinKept(s) ==
    IF s = <<>> THEN <<>>
    ELSE IF Keep(Head(s)) THEN <<Head(s)>> \o JoinKept(Tail(s))
    ELSE JoinKept(Tail(s))

\* str.strip(): the whitespace that leads s is dropped, then the whitespace
\* that trails what is left
Strip(s) ==
    LET lead == CHOOSE n \in 0..Len(s) :
                    /\ \A k \in 1..n : IsSpace(s[k])
                    /\ n = Len(s) \/ ~IsSpace(s[n + 1])
        rest == SubSeq(s, lead + 1, Len(s))
        trail == CHOOSE n \in 0..Len(rest) :
                    /\ \A k \in (Len(rest) - n + 1)..Len(rest) : IsSpace(rest[k])
                    /\ n = Len(rest) \/ ~IsSpace(rest[Len(rest) - n])
    IN SubSeq(rest, 1, Len(rest) - trail)

\* str.replace(" ", "_")
SpacesToUnderscores(s) == [k \in 1..Len(s) |-> IF s[k] = " " THEN "_" ELSE s[k]]

\* safe_query with the cut to 50 characters made after the filter
safe_query_cut_late(query) ==
    LET kept == JoinKept(query)
    IN SpacesToUnderscores(Strip(SubSeq(kept, 1, Min({Len(kept), QueryPrefix}))))

\* safe_query (lines 52-56)
safe_query(query) ==
    SpacesToUnderscores(Strip(JoinKept(SubSeq(query, 1, Min({Len(query), QueryPrefix})))))

\* a number as strftime writes a field of width w: decimal, zero-padded
ZeroPad(n, w) ==
    LET d == ToDigits(n)
    IN [k \in 1..(w - Len(d)) |-> "0"] \o d

\* datetime.now().strftime("%Y%m%d_%H%M%S")
strftime(now) ==
    ZeroPad(now.Y, 4) \o ZeroPad(now.m, 2) \o ZeroPad(now.d, 2) \o <<"_">>
        \o ZeroPad(now.H, 2) \o ZeroPad(now.M, 2) \o ZeroPad(now.S, 2)

ReportPrefix == <<"r","e","s","e","a","r","c","h","_","r","e","p","o","r","t","_">>

DotPdf == <<".", "p", "d", "f">>

\* lines 49-60: the file name used, for the filename argument as given (None
\* and "" are both the empty sequence: "not filename" holds of both)
synthesize_filename(query, filename, now) ==
    LET name == IF filename = <<>>
                THEN ReportPrefix \o safe_query(query) \o <<"_">> \o strftime(now) \o DotPdf
                ELSE filename
    IN IF ~EndsWith(name, DotPdf) THEN name \o DotPdf ELSE name

(* SpecFile: the file name, for queries around the 50-character cut, file   *)
(* names with and without the suffix, and two clock readings.               *)

MaxTail == 3

QueryChars == {"q", " ", "!", "-", "_"}

QueryTails == UNION {[1..n -> QueryChars] : n \in 0..MaxTail}

QueryPads == {0, QueryPrefix - 2, QueryPrefix - 1}

\* the title of section 8 of the specification
QuarterlyReport == <<"Q","u","a","r","t","e","r","l","y"," ","R","e","p","o","r","t",":"," ","Q","1","!","!">>

FileQueries ==
    {QuarterlyReport} \cup
    {[k \in 1..n |-> "a"] \o tail : n \in QueryPads, tail \in QueryTails}

FileNames == {<<>>, <<"r">>, <<"r", ".", "p", "d", "f">>, <<"p", "d", "f">>}

Clock ==
    { [Y |-> 2025, m |-> 6, d |-> 1, H |-> 15, M |-> 4, S |-> 5],
      [Y |-> 2026, m |-> 11, d |-> 30, H |-> 0, M |-> 0, S |-> 59] }

InitFile ==
    /\ InitInstance
    /\ call = NoCall
    /\ threads = <<>>
    /\ ElsewhereIdle
    /\ file \in {[pc |-> "called", query |-> qu, filename |-> f, now |-> n, result |-> <<>>] :
                    qu \in FileQueries, f \in FileNames, n \in Clock}

SynthesizeFilename ==
    /\ file.pc = "called"
    /\ file' = [file EXCEPT !.pc = "done",
                            !.result = synthesize_filename(file.query, file.filename, file.now)]
    /\ UNCHANGED <<url_references, reference_counter, call, threads, elsewhere>>

NextFile == SynthesizeFilename

SpecFile == InitFile /\ [][NextFile]_vars

----------------------------------------------------------------------------
(* Claims checked under SpecProcess                                         *)

Done == call.pc = "done"

\* the sites (callback invocations) of the finished call
SiteIdx == 1..Len(call.sites)

\* C1: after _process_urls_in_markdown(content) the mapping holds at most one
\* URLReference per URL string, the numbers assigned are exactly 1..N for N
\* references, without gaps or duplicates, and reference_counter is N + 1.
C1_ContiguousNumbers ==
    Done =>
        LET refs == url_references
            N == Len(refs)
        IN /\ \A j, k \in 1..N : refs[j].url = refs[k].url => j = k
           /\ \A j, k \in 1..N : refs[j].number = refs[k].number => j = k
           /\ {refs[k].number : k \in 1..N} = 1..N
           /\ reference_counter = N + 1

\* a call that numbered two URLs, one of them at two sites through both passes
C1_Witness ==
    /\ Done
    /\ Len(url_references) >= 2
    /\ \E x, y \in SiteIdx :
          /\ call.sites[x].pass = "link" /\ call.sites[y].pass = "bare"
          /\ call.sites[x].url = call.sites[y].url

----------------------------------------------------------------------------
(* What a content holds, read off the content alone.  A markdown link is a  *)
(* match of link_pattern (the link sites); a bare URL is a token outside    *)
(* every markdown link that starts, at a word boundary, with http://,       *)
(* https:// or www., runs to the next white space, <, >, double quote or    *)
(* square bracket, and does not directly follow a "[".                      *)

LinkSites == {x \in SiteIdx : call.sites[x].pass = "link"}

BareSites == {x \in SiteIdx : call.sites[x].pass = "bare"}

NumberedLinks == {x \in LinkSites : ~call.sites[x].anchor}

AnchorLinks == {x \in LinkSites : call.sites[x].anchor}

InLink(i) ==
    \E x \in LinkSites : call.sites[x].ostart <= i /\ i <= call.sites[x].oend

TokenEnd(i) == RunEnd(call.content, i + BarePrefixLen(call.content, i))

TokenCandidate(i) ==
    /\ ~InLink(i)
    /\ WordBoundary(call.content, i)
    /\ BarePrefixLen(call.content, i) > 0
    /\ TokenEnd(i) >= i + BarePrefixLen(call.content, i)

BareTokens ==
    {i \in 1..Len(call.content) :
        /\ TokenCandidate(i)
        /\ ~\E j \in 1..(i - 1) : TokenCandidate(j) /\ TokenEnd(j) >= i
        /\ (i = 1 \/ call.content[i - 1] # "[")}

TokenUrl(i) == SubSeq(call.content, i, TokenEnd(i))

\* the distinct URLs of the content, over both forms
ContentUrls ==
    {call.sites[x].url : x \in NumberedLinks} \cup {TokenUrl(i) : i \in BareTokens}

\* the bare URL at i was replaced, whole, by the marker of number n
TokenReplacedBy(i, n) ==
    \E y \in BareSites :
        /\ call.sites[y].ostart = i
        /\ call.sites[y].oend = TokenEnd(i)
        /\ call.sites[y].repl = Marker(n)

\* first place in the content where a site of URL u starts
FirstOccurrence(u) ==
    Min({call.sites[x].ostart : x \in {y \in SiteIdx : call.sites[y].url = u}})

\* C2: reference numbers follow the order of first occurrence in the content:
\* of two registered URLs, the one that occurs first has the smaller number.
C2_OrderedByFirstOccurrence ==
    Done =>
        \A j, k \in 1..Len(url_references) :
            FirstOccurrence(url_references[j].url) < FirstOccurrence(url_references[k].url)
                => url_references[j].number < url_references[k].number

\* C5: a URL string that is a markdown link target and also occurs as a bare
\* URL gets exactly one reference, and every one of those sites is replaced by
\* that reference's marker.
C5_OneReferenceAcrossForms ==
    Done =>
        \A x \in NumberedLinks :
            LET u == call.sites[x].url
            IN (\E i \in BareTokens : TokenUrl(i) = u) =>
                /\ Cardinality({k \in 1..Len(url_references) : url_references[k].url = u}) = 1
                /\ call.sites[x].repl = Marker(GetRef(url_references, u).number)
                /\ \A i \in BareTokens :
                       TokenUrl(i) = u => TokenReplacedBy(i, GetRef(url_references, u).number)

\* the numbers n of the markers, "[" digits "]", that the passes wrote into
\* the processed text t (text of the content that looks like a marker is not
\* counted)
MarkerAt(t, i, j) ==
    /\ t[i] = "[" /\ t[j] = "]" /\ j > i + 1
    /\ \A k \in (i + 1)..(j - 1) : t[k] \in Digits
    /\ \A k \in i..j : call.orig[k] = 0

DigitValue(c) == CHOOSE d \in 0..9 : DigitChars[d + 1] = c

RECURSIVE FromDigits(_)
FromDigits(ds) ==
    IF ds = <<>> THEN 0
    ELSE 10 * FromDigits(SubSeq(ds, 1, Len(ds) - 1)) + DigitValue(ds[Len(ds)])

MarkersIn(t) ==
    {FromDigits(SubSeq(t, ij[1] + 1, ij[2] - 1)) :
        ij \in {p \in (1..Len(t)) \X (1..Len(t)) : MarkerAt(t, p[1], p[2])}}

\* C6: for a content with N distinct URLs over both forms, the processed text
\* holds exactly the markers [1]..[N], every occurrence of a URL is replaced
\* by that URL's marker, and the reference list has N entries.
C6_MarkersMatchUrls ==
    Done =>
        LET N == Cardinality(ContentUrls)
        IN /\ MarkersIn(call.processed) = 1..N
           /\ Len(call.references) = N
           /\ \A u \in ContentUrls : HasKey(call.references, u)
           /\ \A x \in NumberedLinks :
                  call.sites[x].repl = Marker(GetRef(call.references, call.sites[x].url).number)
           /\ \A i \in BareTokens :
                  TokenReplacedBy(i, GetRef(call.references, TokenUrl(i)).number)

\* the characters ostart..oend of the content stand, in order and adjacent,
\* in the processed text
Unmodified(ostart, oend) ==
    \E p \in 1..Len(call.orig) :
        /\ p + (oend - ostart) <= Len(call.orig)
        /\ \A d \in 0..(oend - ostart) : call.orig[p + d] = ostart + d

\* site y rewrote characters of the content that lie within ostart..oend
Touches(y, ostart, oend) ==
    call.sites[y].ostart <= oend /\ ostart <= call.sites[y].oend

\* C7: a markdown link whose target begins with "#" is never numbered and
\* passes through unchanged: neither pass registers a reference for it or
\* rewrites it, and its full text stands unmodified in the processed output.
C7_AnchorsUntouched ==
    Done =>
        \A x \in AnchorLinks :
            /\ call.sites[x].repl = SubSeq(call.content, call.sites[x].ostart, call.sites[x].oend)
            /\ ~call.sites[x].created
            /\ \A y \in BareSites : ~Touches(y, call.sites[x].ostart, call.sites[x].oend)
            /\ Unmodified(call.sites[x].ostart, call.sites[x].oend)

\* C8: the bare-URL pass never re-matches what the markdown pass handled: no
\* bare match takes in a character of a substituted marker, and none lies in
\* the span of a markdown link of the content, so the bare-URL pass registers
\* references only for URLs outside markdown-link syntax.
C8_BarePassOutsideLinks ==
    Done =>
        \A y \in BareSites :
            /\ call.sites[y].ostart # 0 /\ call.sites[y].oend # 0
            /\ \A x \in LinkSites : ~Touches(y, call.sites[x].ostart, call.sites[x].oend)

----------------------------------------------------------------------------
(* Claims checked under Spec                                                *)

\* u occurs in text t
IsSubstring(u, t) == \E i \in 1..(Len(t) + 1) : HasAt(t, i, u)

\* C3: sequential renders on one instance do not leak state: whatever earlier
\* renders registered, the references a render returns hold only URLs of its
\* own content, are numbered from 1, and are those a fresh instance returns.
C3_NoLeakAcrossRenders ==
    Done =>
        LET refs == call.references
        IN /\ \A k \in 1..Len(refs) : IsSubstring(refs[k].url, call.content)
           /\ {refs[k].number : k \in 1..Len(refs)} = 1..Len(refs)
           /\ refs = process_urls_in_markdown(<<>>, 1, call.content).refs

\* a render that found, on entry, a reference to a URL its own content lacks,
\* and registered a reference of its own
C3_Witness ==
    /\ Done
    /\ Len(call.references) >= 1
    /\ \E k \in 1..Len(call.before) : ~IsSubstring(call.before[k].url, call.content)

----------------------------------------------------------------------------
(* Claims checked under SpecConcurrent                                      *)

\* what a call on content c returns when it runs alone on the instance
Alone(c) == process_urls_in_markdown(<<>>, 1, c)

\* thread t returned a reference to a URL that its own content lacks
ForeignUrl(t) ==
    \E k \in 1..Len(threads[t].references) :
        ~IsSubstring(threads[t].references[k].url, threads[t].content)

\* thread t returned a list that lacks a URL it numbered in its own text
MissesOwnUrl(t) ==
    \E un \in threads[t].used : ~HasKey(threads[t].references, un[1])

\* thread t wrote a marker [n] for a URL that its list holds under another number
MarkerMismatch(t) ==
    \E un \in threads[t].used :
        /\ HasKey(threads[t].references, un[1])
        /\ GetRef(threads[t].references, un[1]).number # un[2]

\* C4: renders that interleave on one instance are unsafe.  A call returns
\* what it returns alone whenever the other thread did not run during it, a
\* call fails only when the other thread ran during it, and (the witness)
\* there is an interleaving after which a call returns a URL of the other
\* call's content and lacks one of its own.
C4_OnlyInterleavingCorrupts ==
    \A t \in Threads :
        /\ (threads[t].pc = "done" /\ ~threads[t].disturbed) =>
               /\ threads[t].references = Alone(threads[t].content).refs
               /\ threads[t].processed = Alone(threads[t].content).out
        /\ threads[t].pc = "failed" => threads[t].disturbed

C4_Witness ==
    \E t \in Threads :
        /\ threads[t].pc = "done"
        /\ ForeignUrl(t)
        /\ MissesOwnUrl(t)

----------------------------------------------------------------------------
(* Claims checked under SpecTitle                                           *)

\* the domain of a URL as the claim words it: the scheme is taken off (https
\* assumed when there is none), the host runs to the first "/", "?" or "#",
\* and a leading "www." is stripped
ClaimDomain(url) ==
    LET rest == IF StartsWith(url, HTTPS) THEN SubSeq(url, Len(HTTPS) + 1, Len(url))
                ELSE IF StartsWith(url, HTTP) THEN SubSeq(url, Len(HTTP) + 1, Len(url))
                ELSE url
        S == {j \in 1..Len(rest) : rest[j] \in {"/", "?", "#"}}
        host == IF S = {} THEN rest ELSE SubSeq(rest, 1, Min(S) - 1)
    IN IF StartsWith(host, WWW) THEN SubSeq(host, Len(WWW) + 1, Len(host)) ELSE host

\* the site at which the reference to URL u was created
CreatingSite(u) ==
    call.sites[CHOOSE x \in SiteIdx : call.sites[x].created /\ call.sites[x].url = u]

\* C9: a reference created from a markdown link with link text has that text
\* as its title; one created from a link with empty text, or from a bare URL,
\* has the URL's domain (host without a leading "www.", https assumed); the
\* link with empty text around https://example.com/page of the specification
\* yields the title example.com; later occurrences do not change a title.
C9_TitleDerivation ==
    Done =>
        /\ \A k \in 1..Len(call.references) :
               LET r == call.references[k]
                   site == CreatingSite(r.url)
               IN r.title = IF site.pass = "link" /\ site.text # <<>>
                            THEN site.text ELSE ClaimDomain(r.url)
        /\ call.content = SpecExample =>
               /\ Len(call.references) = 1
               /\ call.references[1].title = <<"e","x","a","m","p","l","e",".","c","o","m">>

----------------------------------------------------------------------------
(* Claims checked under SpecFile                                            *)

FileDone == file.pc = "done"

\* the characters of the first 50 of the title that are alphanumerics, spaces,
\* hyphens or underscores
Retained(query) == SelectSeq(SubSeq(query, 1, Min({Len(query), QueryPrefix})), Keep)

\* name is ReportPrefix, then S, "_", a stamp of n characters, ".pdf"
HasShape(name, S, n) ==
    /\ Len(name) = Len(ReportPrefix) + Len(S) + 1 + n + Len(DotPdf)
    /\ HasAt(name, 1, ReportPrefix \o S \o <<"_">>)
    /\ EndsWith(name, DotPdf)

\* the stamp of n characters of such a name
Stamp(name, S, n) ==
    SubSeq(name, Len(ReportPrefix) + Len(S) + 2, Len(ReportPrefix) + Len(S) + 1 + n)

\* a given file name gets ".pdf" exactly when it does not end with it
GivenNameRule ==
    file.result = IF EndsWith(file.filename, DotPdf) THEN file.filename
                  ELSE file.filename \o DotPdf

\* C10: with no filename given the file is research_report_<S>_<T>.pdf, S the
\* retained characters of the first 50 of the title with spaces turned into
\* underscores, T a timestamp of 14 digits; a given filename gets ".pdf"
\* exactly when it does not end with it.
C10_FilenameSynthesis ==
    FileDone =>
        IF file.filename = <<>>
        THEN LET S == SpacesToUnderscores(Retained(file.query))
             IN /\ HasShape(file.result, S, 14)
                /\ \A k \in 1..14 : Stamp(file.result, S, 14)[k] \in Digits
        ELSE GivenNameRule

\* the retained characters without the spaces that lead and trail them
Trimmed(F) ==
    LET N == {k \in 1..Len(F) : F[k] # " "}
    IN IF N = {} THEN <<>> ELSE SubSeq(F, Min(N), Max(N))

\* C10 amended: S is the retained characters of the first 50 of the title,
\* leading and trailing spaces dropped and the other spaces turned into
\* underscores; T is YYYYMMDD_HHMMSS, the reading of the clock to the second
\* as 14 digits with an underscore between date and time.
C10_FilenameSynthesisAmended ==
    FileDone =>
        IF file.filename = <<>>
        THEN LET S == SpacesToUnderscores(Trimmed(Retained(file.query)))
                 T == Stamp(file.result, S, 15)
             IN /\ HasShape(file.result, S, 15)
                /\ T[9] = "_"
                /\ \A k \in (1..15) \ {9} : T[k] \in Digits
                /\ FromDigits(SubSeq(T, 1, 4)) = file.now.Y
                /\ FromDigits(SubSeq(T, 5, 6)) = file.now.m
                /\ FromDigits(SubSeq(T, 7, 8)) = file.now.d
                /\ FromDigits(SubSeq(T, 10, 11)) = file.now.H
                /\ FromDigits(SubSeq(T, 12, 13)) = file.now.M
                /\ FromDigits(SubSeq(T, 14, 15)) = file.now.S
        ELSE GivenNameRule

\* a name made from a title longer than 50 characters, whose first 50 hold a
\* character that is dropped and end, once filtered, with a space
C10_Witness ==
    /\ FileDone
    /\ file.filename = <<>>
    /\ Len(file.query) > QueryPrefix
    /\ Len(Retained(file.query)) < QueryPrefix
    /\ Retained(file.query) # <<>>
    /\ Retained(file.query)[Len(Retained(file.query))] = " "

----------------------------------------------------------------------------
(* pdf_utils.py: enhance_html_with_bs4 (lines 34-47), called at pdf.py 113.  *)
(* An HTML text is the sequence of its elements in document order, each a   *)
(* tag and the list of its classes, and whether every tag of the text is    *)
(* closed.  BeautifulSoup is a collaborator: each call into it either       *)
(* returns or raises one of ParserFailures.                                 *)

MaxElems == 2

Tags == {"table", "blockquote", "pre", "p"}

Elements == {[tag |-> t, class |-> c] : t \in Tags, c \in {<<>>, <<"x">>}}

HtmlTexts ==
    {[elems |-> e, closed |-> b] :
        e \in UNION {[1..n -> Elements] : n \in 0..MaxElems}, b \in BOOLEAN}

\* what a call into the library may raise
ParserFailures == {"ParserRejectedMarkup", "TypeError", "RecursionError"}

\* an except clause that catches ParserRejectedMarkup alone
CatchesParserOnly(kind) == kind = "ParserRejectedMarkup"

\* except Exception (line 45): the subclasses of Exception
CatchesException(kind) ==
    kind \in {"ParserRejectedMarkup", "TypeError", "RecursionError", "ValueError"}

\* BeautifulSoup(html, "html.parser"): the tree of the elements
BeautifulSoup(html) == html.elems

\* str(soup): the tree written out, every tag closed
SoupText(soup) == [elems |-> soup, closed |-> TRUE]

\* soup.find_all(tag): the positions of the elements of that tag
find_all(soup, tag) == {k \in 1..Len(soup) : soup[k].tag = tag}

\* el["class"] = el.get("class", []) + [cls]
AddClass(el, cls) == [el EXCEPT !.class = @ \o <<cls>>]

\* a for loop of lines 38-43 after its first n rounds
LoopRounds(soup, tag, cls, n) ==
    [k \in 1..Len(soup) |->
        IF k \in find_all(soup, tag) /\ Cardinality({j \in find_all(soup, tag) : j <= k}) <= n
        THEN AddClass(soup[k], cls)
        ELSE soup[k]]

NoDoc == [pc |-> "idle"]

InitEnhance ==
    /\ InitInstance
    /\ call = NoCall
    /\ threads = <<>>
    /\ file = NoFile
    /\ request = [pc |-> "idle"]
    /\ tool = [pc |-> "idle"]
    /\ demo = [pc |-> "idle"]
    /\ doc \in {[pc |-> "parse", html |-> h, soup |-> <<>>, exc |-> "none", result |-> h] :
                    h \in HtmlTexts}

EnhanceFrame == UNCHANGED <<url_references, reference_counter, call, threads, file,
                            request, tool, demo>>

\* an exception of kind e raised inside the try block
Raise(e) ==
    IF CatchesException(e)
    THEN doc' = [doc EXCEPT !.pc = "except", !.exc = e]
    ELSE doc' = [doc EXCEPT !.pc = "raised", !.exc = e]

\* line 37
Parse ==
    /\ doc.pc = "parse"
    /\ \/ doc' = [doc EXCEPT !.pc = "tables", !.soup = BeautifulSoup(doc.html)]
       \/ \E e \in ParserFailures : Raise(e)
    /\ EnhanceFrame

\* one of the loops of lines 38-43: all its rounds, or some and an exception
Loop(at, tag, cls, then) ==
    /\ doc.pc = at
    /\ \/ doc' = [doc EXCEPT !.pc = then,
                             !.soup = LoopRounds(doc.soup, tag, cls, Len(doc.soup))]
       \/ \E e \in ParserFailures, n \in 0..Len(doc.soup) :
            /\ n < Cardinality(find_all(doc.soup, tag))
            /\ doc' = [doc EXCEPT !.pc = IF CatchesException(e) THEN "except" ELSE "raised",
                                  !.exc = e,
                                  !.soup = LoopRounds(doc.soup, tag, cls, n)]
    /\ EnhanceFrame

TagTables == Loop("tables", "table", "research-table", "quotes")

TagQuotes == Loop("quotes", "blockquote", "research-quote", "pres")

TagPres == Loop("pres", "pre", "research-code", "str")

\* line 44
ReturnSoup ==
    /\ doc.pc = "str"
    /\ \/ doc' = [doc EXCEPT !.pc = "returned", !.result = SoupText(doc.soup)]
       \/ \E e \in ParserFailures : Raise(e)
    /\ EnhanceFrame

\* lines 45-47
ReturnOriginal ==
    /\ doc.pc = "except"
    /\ doc' = [doc EXCEPT !.pc = "returned", !.result = doc.html]
    /\ EnhanceFrame

NextEnhance ==
    \/ Parse
    \/ TagTables
    \/ TagQuotes
    \/ TagPres
    \/ ReturnSoup
    \/ ReturnOriginal

SpecEnhance == InitEnhance /\ [][NextEnhance]_vars

----------------------------------------------------------------------------
(* Claims checked under SpecEnhance                                         *)

\* the class the step adds to an element of that tag, if any
StyleClass(tag) ==
    CASE tag = "table" -> <<"research-table">>
      [] tag = "blockquote" -> <<"research-quote">>
      [] tag = "pre" -> <<"research-code">>
      [] OTHER -> <<>>

\* C11: the enhancement step never lets an exception out; it returns the HTML
\* with research-table / research-quote / research-code added to every table /
\* blockquote / pre element, or, after a failure inside the step, the original
\* HTML unmodified.
C11_EnhanceNeverAborts ==
    /\ doc.pc # "raised"
    /\ doc.pc = "returned" =>
        IF doc.exc # "none"
        THEN doc.result = doc.html
        ELSE /\ Len(doc.result.elems) = Len(doc.html.elems)
             /\ \A k \in 1..Len(doc.html.elems) :
                    /\ doc.result.elems[k].tag = doc.html.elems[k].tag
                    /\ doc.result.elems[k].class =
                          doc.html.elems[k].class \o StyleClass(doc.html.elems[k].tag)

\* a return after a failure that came when part of the tree had been changed
C11_Witness ==
    /\ doc.pc = "returned"
    /\ doc.exc # "none"
    /\ doc.soup # <<>>
    /\ doc.soup # doc.html.elems
    /\ \E k \in 1..Len(doc.html.elems) : doc.html.elems[k].tag = "pre"

----------------------------------------------------------------------------
(* pdf_utils.py: create_html_document (lines 50-81).  The document is the   *)
(* values put into the template: the query, the timestamp, the content and  *)
(* references_html, the latter as the sequence of its pieces.               *)

MaxRefs == 3

RefPool == {[url |-> u, title |-> "t", number |-> n] : u \in {"u", "v"}, n \in 1..MaxRefs}

ReferenceLists == UNION {[1..n -> RefPool] : n \in 0..MaxRefs}

\* the references in the order given
unsorted(references) == references

RECURSIVE sorted(_)
\* sorted(references, key=lambda x: x.number): ascending, equal keys in the
\* order given
sorted(references) ==
    IF references = <<>> THEN <<>>
    ELSE LET n == Len(references)
             last == references[n]
             front == sorted(SubSeq(references, 1, n - 1))
             keep == Cardinality({k \in 1..Len(front) : front[k].number <= last.number})
         IN SubSeq(front, 1, keep) \o <<last>> \o SubSeq(front, keep + 1, Len(front))

SectionOpen == [kind |-> "open", title |-> "", url |-> ""]

SectionClose == [kind |-> "close", title |-> "", url |-> ""]

\* line 57: the entry of one reference, its title and its url
ListItem(ref) == [kind |-> "li", title |-> ref.title, url |-> ref.url]

\* lines 52-59
references_html(references) ==
    IF references # <<>>
    THEN <<SectionOpen>>
            \o [k \in 1..Len(references) |-> ListItem(sorted(references)[k])]
            \o <<SectionClose>>
    ELSE <<>>

MonthNames == <<<<"J","a","n","u","a","r","y">>,
               <<"F","e","b","r","u","a","r","y">>,
               <<"M","a","r","c","h">>,
               <<"A","p","r","i","l">>,
               <<"M","a","y">>,
               <<"J","u","n","e">>,
               <<"J","u","l","y">>,
               <<"A","u","g","u","s","t">>,
               <<"S","e","p","t","e","m","b","e","r">>,
               <<"O","c","t","o","b","e","r">>,
               <<"N","o","v","e","m","b","e","r">>,
               <<"D","e","c","e","m","b","e","r">>>>

\* %I and %p: the hour on the 12-hour clock, and AM or PM
Hour12(H) == IF H % 12 = 0 THEN 12 ELSE H % 12

AmPm(H) == IF H < 12 THEN <<"A", "M">> ELSE <<"P", "M">>

\* datetime.now().strftime("%B %d, %Y at %I:%M %p") (line 60)
strftime_long(now) ==
    MonthNames[now.m] \o <<" ">> \o ZeroPad(now.d, 2) \o <<",", " ">> \o ZeroPad(now.Y, 4)
        \o <<" ", "a", "t", " ">> \o ZeroPad(Hour12(now.H), 2) \o <<":">> \o ZeroPad(now.M, 2)
        \o <<" ">> \o AmPm(now.H)

\* lines 50-81
create_html_document(content, query, references, now) ==
    [query |-> query, timestamp |-> strftime_long(now), content |-> content,
     references_html |-> references_html(references)]

InitDocument ==
    /\ InitInstance
    /\ call = NoCall
    /\ threads = <<>>
    /\ file = NoFile
    /\ request = [pc |-> "idle"]
    /\ tool = [pc |-> "idle"]
    /\ demo = [pc |-> "idle"]
    /\ doc \in {[pc |-> "assemble", content |-> "c", query |-> "q", references |-> r,
                 now |-> n, document |-> <<>>] : r \in ReferenceLists, n \in Clock}

Assemble ==
    /\ doc.pc = "assemble"
    /\ doc' = [doc EXCEPT !.pc = "assembled",
                          !.document = create_html_document(doc.content, doc.query,
                                                            doc.references, doc.now)]
    /\ EnhanceFrame

NextDocument == Assemble

SpecDocument == InitDocument /\ [][NextDocument]_vars

----------------------------------------------------------------------------
(* Claims checked under SpecDocument                                        *)

Assembled == doc.pc = "assembled"

\* the entries of the References section of the document
SectionEntries ==
    LET h == doc.document.references_html
    IN SelectSeq(h, LAMBDA e : e.kind = "li")

HasSection ==
    LET h == doc.document.references_html
    IN /\ Len(h) >= 2
       /\ h[1] = SectionOpen
       /\ h[Len(h)] = SectionClose
       /\ \A k \in 2..(Len(h) - 1) : h[k].kind = "li"

Orders(n) == {f \in [1..n -> 1..n] : \A i, j \in 1..n : f[i] = f[j] => i = j}

\* C12: the document has a References section exactly when a reference was
\* collected; the section lists every reference given once, in ascending order
\* of number, in whatever order they were given.
C12_ReferencesSection ==
    Assembled =>
        /\ HasSection <=> Len(doc.references) > 0
        /\ ~HasSection => doc.document.references_html = <<>>
        /\ Len(SectionEntries) = Len(doc.references)
        /\ \E f \in Orders(Len(doc.references)) :
              /\ \A k \in 1..Len(doc.references) :
                    /\ SectionEntries[k].title = doc.references[f[k]].title
                    /\ SectionEntries[k].url = doc.references[f[k]].url
              /\ \A j, k \in 1..Len(doc.references) :
                    j < k => doc.references[f[j]].number <= doc.references[f[k]].number

\* a document made from references given out of order
C12_Witness ==
    /\ Assembled
    /\ HasSection
    /\ Len(doc.references) = 3
    /\ doc.references[1].number > doc.references[2].number
    /\ doc.references[2].number > doc.references[3].number
    /\ doc.references[1].url # doc.references[3].url

----------------------------------------------------------------------------
(* research-agent/serve.py: POST /query (lines 28-81).  A request carries   *)
(* an optional bearer credential and a JSON body; a JSON value is a type    *)
(* and its text.  The agency is a collaborator that returns a value, raises *)
(* or does not answer within the timeout.                                   *)

UpperChars == <<"A","B","C","D","E","F","G","H","I","J","K","L","M","N","O","P","Q","R","S","T","U","V","W","X","Y","Z">>

LowerChars == <<"a","b","c","d","e","f","g","h","i","j","k","l","m","n","o","p","q","r","s","t","u","v","w","x","y","z">>

\* a string as it is, the case of its letters kept
same_case(s) == s

\* str.lower()
lower(s) ==
    [k \in 1..Len(s) |->
        IF s[k] \in Upper
        THEN LowerChars[CHOOSE i \in 1..26 : UpperChars[i] = s[k]]
        ELSE s[k]]

\* len(query) > 10000 (line 57)
QueryMax == 10000

\* line 61
Keywords == {<<"<","s","c","r","i","p","t">>, <<"j","a","v","a","s","c","r","i","p","t",":">>,
             <<"d","a","t","a",":">>, <<"v","b","s","c","r","i","p","t",":">>}

\* keyword in text
Contains(text, keyword) ==
    \E i \in 1..(Len(text) - Len(keyword) + 1) : HasAt(text, i, keyword)

\* JSON values: a string, a number, null
Str(s) == [type |-> "str", value |-> s]

Truthy(v) ==
    CASE v.type = "str" -> v.value # <<>>
      [] v.type = "int" -> v.value # <<"0">>
      [] OTHER -> FALSE

MaxQueryPieces == 2

QueryPieces == {<<"<","s","c","r","i","p","t">>, <<"<","S","C","R","I","P","T">>, <<"J","a","v","a","S","c","r","i","p","t",":">>,
                <<"d","a","t","a",":">>, <<"v","b","s","c","r","i","p","t",":">>, <<"d","a","t","a">>,
                <<"h", "i">>, <<" ">>}

ShortQueries == ContentsOf(QueryPieces, MaxQueryPieces)

\* queries of exactly QueryMax characters and of one more
LongQueries ==
    {core \o [k \in 1..(n - Len(core)) |-> "x"] :
        core \in {<<>>, <<" ", "h", "i">>}, n \in {QueryMax, QueryMax + 1}}

\* a JSON object with or without the key "query"
Payloads ==
    {[object |-> TRUE, has_query |-> FALSE, query |-> Str(<<>>)]} \cup
    {[object |-> TRUE, has_query |-> TRUE, query |-> v] :
        v \in {Str(t) : t \in ShortQueries \cup LongQueries}
              \cup {[type |-> "int", value |-> <<"0">>], [type |-> "int", value |-> <<"5">>],
                    [type |-> "null", value |-> <<>>]}}

\* a body that is not a JSON object
NotObject == [object |-> FALSE, has_query |-> FALSE, query |-> Str(<<>>)]

\* os.getenv('RESEARCH_AGENT_API_KEY'): unset, empty or a key
EnvKeys == {"unset", "", "k1"}

\* the Authorization header: none, or a bearer credential
Bearers == {"none", "k1", "k2"}

\* what the awaited agency call does
AgencyOutcomes ==
    {[kind |-> "return", value |-> v] :
        v \in {Str(<<"o", "k">>), Str(<<>>), [type |-> "int", value |-> <<"5">>],
               [type |-> "null", value |-> <<>>]}}
    \cup {[kind |-> "timeout", value |-> Str(<<>>)],
          [kind |-> "raise", value |-> Str(<<>>)]}

NoRequest == [pc |-> "idle"]

NoAnswer == [kind |-> "none", value |-> Str(<<>>)]

NoResponse == [input |-> Str(<<>>), output |-> Str(<<>>)]

InitQuery ==
    /\ InitInstance
    /\ call = NoCall
    /\ threads = <<>>
    /\ file = NoFile
    /\ doc = NoDoc
    /\ tool = [pc |-> "idle"]
    /\ demo = [pc |-> "idle"]
    /\ request \in {[pc |-> "received", env_key |-> e, bearer |-> b, payload |-> p,
                     agency_calls |-> <<>>, answer |-> NoAnswer, status |-> 0, detail |-> "", body |-> NoResponse] :
                        e \in EnvKeys, b \in Bearers, p \in Payloads \cup {NotObject}}

QueryFrame == UNCHANGED <<url_references, reference_counter, call, threads, file,
                          doc, tool, demo>>

\* raise HTTPException(status_code, detail)
HTTPException(status_code, detail) ==
    [request EXCEPT !.pc = "done", !.status = status_code, !.detail = detail]

\* HTTPBearer() (line 28) finds no bearer credential and refuses the request;
\* the status is 403 or 401 by the version of the framework
HTTPBearer ==
    /\ request.pc = "received"
    /\ request.bearer = "none"
    /\ \E st \in {401, 403} : request' = HTTPException(st, "Not authenticated")
    /\ QueryFrame

\* payload: dict (line 47): a body that is not an object is refused
BodyNotDict ==
    /\ request.pc \in {"received", "verified"}
    /\ ~request.payload.object
    /\ request' = HTTPException(422, "Unprocessable Entity")
    /\ QueryFrame

\* lines 30-39
verify_api_key ==
    /\ request.pc = "received"
    /\ request.bearer # "none"
    /\ request' =
          IF request.env_key \in {"unset", ""}
          THEN HTTPException(500, "API key not configured")
          ELSE IF request.bearer # request.env_key
          THEN HTTPException(401, "Invalid API key")
          ELSE [request EXCEPT !.pc = "verified"]
    /\ QueryFrame

\* payload.get("query", "")
GetQuery(payload) == IF payload.has_query THEN payload.query ELSE Str(<<>>)

\* lines 47-68: the guards, and the call of the agency when all pass
run_query ==
    /\ request.pc = "verified"
    /\ request.payload.object
    /\ LET query == GetQuery(request.payload)
       IN request' =
            IF ~Truthy(query) \/ query.type # "str"
            THEN HTTPException(400, "Query is required and must be a string")
            ELSE IF Len(query.value) > QueryMax
            THEN HTTPException(400, "Query too long (max 10000 characters)")
            ELSE IF \E keyword \in Keywords : Contains(lower(query.value), keyword)
            THEN HTTPException(400, "Invalid query content")
            ELSE [request EXCEPT !.pc = "awaiting",
                                 !.agency_calls = @ \o <<Strip(query.value)>>]
    /\ QueryFrame

\* the exception e raised in the try block, as the except clauses of lines
\* 74-79 turn it; an HTTPException is an Exception
Except(e) ==
    IF e = "TimeoutError"
    THEN HTTPException(504, "Query timed out - please try a shorter query")
    ELSE HTTPException(500, "Internal server error")

\* lines 66-81: the agency's answer, the check of the output, the response
Respond(outcome) ==
    /\ request.pc = "awaiting"
    /\ LET response ==
            CASE outcome.kind = "timeout" -> Except("TimeoutError")
              [] outcome.kind = "raise" -> Except("Exception")
              [] OTHER ->
                   IF ~Truthy(outcome.value) \/ outcome.value.type # "str"
                   THEN Except("HTTPException")
                   ELSE [request EXCEPT
                            !.pc = "done", !.status = 200,
                            !.body = [input |-> GetQuery(request.payload),
                                      output |-> outcome.value]]
       IN request' = [response EXCEPT !.answer = outcome]
    /\ QueryFrame

NextQuery ==
    \/ HTTPBearer
    \/ BodyNotDict
    \/ verify_api_key
    \/ run_query
    \/ \E outcome \in AgencyOutcomes : Respond(outcome)

SpecQuery == InitQuery /\ [][NextQuery]_vars

----------------------------------------------------------------------------
(* Claims checked under SpecQuery                                           *)

RequestDone == request.pc = "done"

KeyConfigured == request.env_key \notin {"unset", ""}

KeyMatches == request.bearer # "none" /\ request.bearer = request.env_key

\* the characters c and d are one letter in either case, or one character
SameLetter(c, d) ==
    \/ c = d
    \/ \E i \in 1..26 : {c, d} = {UpperChars[i], LowerChars[i]}

\* text holds keyword, the case of letters set aside
HoldsKeyword(text, keyword) ==
    \E i \in 1..(Len(text) - Len(keyword) + 1) :
        \A j \in 1..Len(keyword) : SameLetter(text[i + j - 1], keyword[j])

\* the payload's query is a non-empty string of at most 10000 characters
\* that holds none of the keywords
QueryValid ==
    /\ request.payload.object
    /\ request.payload.has_query
    /\ request.payload.query.type = "str"
    /\ Len(request.payload.query.value) \in 1..QueryMax
    /\ \A keyword \in Keywords : ~HoldsKeyword(request.payload.query.value, keyword)

C14_OneOutcome ==
    (RequestDone /\ request.agency_calls # <<>>) =>
        CASE request.answer.kind = "timeout" -> request.status = 504
          [] request.answer.kind = "raise" ->
                request.status = 500 /\ request.detail = "Internal server error"
          [] request.answer.kind = "return"
                /\ request.answer.value.type = "str" /\ request.answer.value.value # <<>> ->
                /\ request.status = 200
                /\ request.body = [input |-> request.payload.query,
                                   output |-> request.answer.value]
          [] OTHER ->
                /\ request.status = 500
                /\ request.detail = "Invalid response from research agent"

----------------------------------------------------------------------------
(* research-agent/mcp/tools.py: search (lines 9-72).  The vector store is a *)
(* collaborator: its search call raises, or returns a response whose data   *)
(* is a list of items.  An item may lack file_id and filename; its content  *)
(* may be missing, empty, or begin with an object with a text attribute, a  *)
(* dict with or without the key "text", or something else.                  *)

\* text_content[:200] (line 53)
SnippetMax == 200

Ellipsis == <<".", ".", ".">>

NoContentAvailable == <<"N","o"," ","c","o","n","t","e","n","t"," ","a","v","a","i","l","a","b","l","e">>

FilesUrl == <<"h","t","t","p","s",":","/","/","p","l","a","t","f","o","r","m",".","o","p","e","n","a","i",".","c","o","m","/","s","t","o","r","a","g","e","/","f","i","l","e","s","/">>

\* the text as it is
whole_text(text) == text

\* lines 52-56
text_snippet(text) ==
    IF Len(text) > SnippetMax THEN SubSeq(text, 1, SnippetMax) \o Ellipsis ELSE text

MaxItems == 2

Xs(n) == [k \in 1..n |-> "x"]

\* the values a text may have: strings around the cut, and numbers
TextValues ==
    {Str(Xs(n)) : n \in {0, 1, SnippetMax, SnippetMax + 1, SnippetMax + 4}}
        \cup {[type |-> "int", value |-> <<"5">>]}

ItemContents ==
    {[kind |-> k, text |-> Str(<<>>)] : k \in {"missing", "empty", "dict_no_text", "other"}}
        \cup {[kind |-> "obj", text |-> t] : t \in TextValues}
        \cup {[kind |-> "dict", text |-> t] : t \in {Str(<<>>), Str(<<"x">>)}}

\* named: the item has the attributes file_id and filename
Items == {[named |-> b, content |-> c] : b \in BOOLEAN, c \in ItemContents}

SearchResponses ==
    {[kind |-> "raise", has_data |-> FALSE, data |-> <<>>],
     [kind |-> "return", has_data |-> FALSE, data |-> <<>>]}
        \cup {[kind |-> "return", has_data |-> TRUE, data |-> d] :
                 d \in UNION {[1..n -> Items] : n \in 0..MaxItems}}

\* lines 40-50: the text of an item
text_content(item) ==
    LET found == IF item.content.kind \in {"obj", "dict"} THEN item.content.text
                 ELSE Str(<<>>)
    IN IF ~Truthy(found) THEN Str(NoContentAvailable) ELSE found

\* lines 37-63: the result of the item at index i, counted from 0
SearchResult(item, i) ==
    LET item_id == IF item.named THEN <<"f">> \o ToDigits(i)
                   ELSE <<"v", "s", "_">> \o ToDigits(i)
    IN [id |-> item_id,
        title |-> IF item.named THEN <<"n">> \o ToDigits(i)
                  ELSE <<"D", "o", "c", "u", "m", "e", "n", "t", " ">> \o ToDigits(i + 1),
        text |-> text_snippet(text_content(item).value),
        url |-> FilesUrl \o item_id]

\* len(text_content) raises TypeError on a number
ItemRaises(item) == text_content(item).type # "str"

\* lines 24-72: what search returns for a response of the vector store
SearchReturn(response) ==
    IF response.kind = "raise" THEN <<>>
    ELSE IF ~response.has_data THEN <<>>
    ELSE IF \E k \in 1..Len(response.data) : ItemRaises(response.data[k]) THEN <<>>
    ELSE [k \in 1..Len(response.data) |-> SearchResult(response.data[k], k - 1)]

\* the queries: None, and strings blank and not
SearchQueries ==
    {[type |-> "null", value |-> <<>>], Str(<<>>), Str(<<" ">>), Str(<<" ", " ">>),
     Str(<<"q">>), Str(<<" ", "q", " ">>)}

NoTool == [pc |-> "idle"]

ToolFrame == UNCHANGED <<url_references, reference_counter, call, threads, file,
                         doc, request, demo>>

InitSearch ==
    /\ InitInstance
    /\ call = NoCall
    /\ threads = <<>>
    /\ file = NoFile
    /\ doc = NoDoc
    /\ request = NoRequest
    /\ demo = [pc |-> "idle"]
    /\ tool \in {[pc |-> "called", query |-> qu, openai_client |-> c, vector_store_id |-> v,
                  api_calls |-> <<>>, response |-> "none", raised |-> "", results |-> <<>>] :
                    qu \in SearchQueries, c \in BOOLEAN, v \in {"", "vs"}}

\* lines 13-31: the guards, then the call of the vector store
search ==
    /\ tool.pc = "called"
    /\ tool' =
          IF ~Truthy(tool.query) \/ Strip(tool.query.value) = <<>>
          THEN [tool EXCEPT !.pc = "returned", !.results = <<>>]
          ELSE IF ~tool.openai_client
          THEN [tool EXCEPT !.pc = "raised", !.raised = "ValueError"]
          ELSE IF tool.vector_store_id = ""
          THEN [tool EXCEPT !.pc = "raised", !.raised = "ValueError"]
          ELSE [tool EXCEPT !.pc = "searching",
                            !.api_calls = @ \o <<[vector_store_id |-> tool.vector_store_id,
                                                  query |-> tool.query.value]>>]
    /\ ToolFrame

\* lines 29-72: the answer of the vector store and what search makes of it
search_response(response) ==
    /\ tool.pc = "searching"
    /\ tool' = [tool EXCEPT !.pc = "returned",
                            !.response = response.kind,
                            !.results = SearchReturn(response)]
    /\ ToolFrame

NextSearch ==
    \/ search
    \/ \E response \in SearchResponses : search_response(response)

SpecSearch == InitSearch /\ [][NextSearch]_vars

----------------------------------------------------------------------------
(* Claims checked under SpecSearch                                          *)

\* the query is None, empty or of whitespace only
BlankQuery ==
    \/ tool.query.type # "str"
    \/ \A k \in 1..Len(tool.query.value) : IsSpace(tool.query.value[k])

SearchEnded == tool.pc \in {"returned", "raised"}

\* C15: a blank query returns no results without a call of the vector store,
\* whatever the client and store id; a non-blank query with no client or no
\* store id raises ValueError before any call; an exception of the search
\* call becomes an empty result list; every result's text is non-empty and of
\* at most 203 characters.
C15_SearchContract ==
    /\ BlankQuery => tool.api_calls = <<>>
    /\ (~tool.openai_client \/ tool.vector_store_id = "") => tool.api_calls = <<>>
    /\ SearchEnded =>
        /\ BlankQuery => tool.pc = "returned" /\ tool.results = <<>>
        /\ (~BlankQuery /\ (~tool.openai_client \/ tool.vector_store_id = "")) =>
              tool.pc = "raised" /\ tool.raised = "ValueError"
        /\ tool.pc = "raised" => tool.api_calls = <<>>
        /\ tool.response = "raise" => tool.pc = "returned" /\ tool.results = <<>>
        /\ \A k \in 1..Len(tool.results) :
              /\ Len(tool.results[k].text) \in 1..(SnippetMax + 3)
              /\ Len(tool.results[k].text) > SnippetMax =>
                    EndsWith(tool.results[k].text, Ellipsis)

\* results with a text that was cut and one that was not
C15_Witness ==
    /\ tool.pc = "returned"
    /\ Len(tool.results) = 2
    /\ Len(tool.results[1].text) = SnippetMax + 3
    /\ Len(tool.results[2].text) = SnippetMax

----------------------------------------------------------------------------
(* research-agent/mcp/tools.py: fetch (lines 75-135).  The two calls of the *)
(* vector store, content and retrieve, each raise or return.                *)

ErrorTitle == <<"E","r","r","o","r"," ","r","e","t","r","i","e","v","i","n","g"," ","d","o","c","u","m","e","n","t"," ">>

DocumentTitle == <<"D","o","c","u","m","e","n","t"," ">>

ErrorText == <<"E","r","r","o","r",":"," ">>

\* the address of the file store alone
files_url(id) == FilesUrl

\* f"https://platform.openai.com/storage/files/{id}"
document_url(id) == FilesUrl \o id

\* what files.content returns: no data, or a list of items with or without a
\* text, the text a string or a number
ContentItems ==
    {[has_text |-> FALSE, text |-> Str(<<>>)]}
        \cup {[has_text |-> TRUE, text |-> t] :
                 t \in {Str(<<"a">>), Str(<<"b">>), [type |-> "int", value |-> <<"5">>]}}

ContentResponses ==
    {[kind |-> "raise", has_data |-> FALSE, data |-> <<>>],
     [kind |-> "return", has_data |-> FALSE, data |-> <<>>]}
        \cup {[kind |-> "return", has_data |-> TRUE, data |-> d] :
                 d \in UNION {[1..n -> ContentItems] : n \in 0..MaxItems}}

\* what files.retrieve returns: with or without a filename; attributes
\* absent, None, empty or set
FileInfos ==
    {[kind |-> "raise", has_filename |-> FALSE, attributes |-> "absent"]}
        \cup {[kind |-> "return", has_filename |-> b, attributes |-> a] :
                 b \in BOOLEAN, a \in {"absent", "none", "empty", "set"}}

\* lines 104-106: the texts of the items that have one
content_parts(data) == SelectSeq(data, LAMBDA item : item.has_text)

RECURSIVE join(_)
\* "\n".join(content_parts)
join(parts) ==
    IF parts = <<>> THEN <<>>
    ELSE IF Len(parts) = 1 THEN parts[1].text.value
    ELSE parts[1].text.value \o <<"\n">> \o join(Tail(parts))

\* str.join raises TypeError on an item that is not a string
JoinRaises(response) ==
    /\ response.has_data
    /\ \E k \in 1..Len(response.data) :
          response.data[k].has_text /\ response.data[k].text.type # "str"

\* lines 101-109
file_content(response) ==
    IF response.has_data /\ response.data # <<>>
    THEN join(content_parts(response.data))
    ELSE NoContentAvailable

\* lines 129-135
ErrorDocument(id, e) ==
    [id |-> id, title |-> ErrorTitle \o id, text |-> ErrorText \o e,
     url |-> document_url(id), metadata |-> "None"]

\* lines 111-125
Document(id, response, info) ==
    [id |-> id,
     title |-> IF info.has_filename THEN <<"n">> ELSE DocumentTitle \o id,
     text |-> file_content(response),
     url |-> document_url(id),
     metadata |-> IF info.attributes = "set" THEN "attributes" ELSE "None"]

NoDocument == [id |-> <<>>, title |-> <<>>, text |-> <<>>, url |-> <<>>, metadata |-> "None"]

InitFetch ==
    /\ InitInstance
    /\ call = NoCall
    /\ threads = <<>>
    /\ file = NoFile
    /\ doc = NoDoc
    /\ request = NoRequest
    /\ demo = [pc |-> "idle"]
    /\ tool \in {[pc |-> "called", id |-> i, openai_client |-> c, vector_store_id |-> v,
                  api_calls |-> <<>>, content_response |-> CHOOSE r \in ContentResponses : r.kind = "raise",
                  failed |-> "none", raised |-> "", result |-> NoDocument] :
                    i \in {<<>>, <<"f", "1">>, <<"x">>}, c \in BOOLEAN, v \in {"", "vs"}}

\* lines 79-95: the guards, then the call of files.content
fetch ==
    /\ tool.pc = "called"
    /\ tool' =
          IF tool.id = <<>> \/ ~tool.openai_client \/ tool.vector_store_id = ""
          THEN [tool EXCEPT !.pc = "raised", !.raised = "ValueError"]
          ELSE [tool EXCEPT !.pc = "content", !.api_calls = @ \o <<"content">>]
    /\ ToolFrame

\* lines 93-99: the answer of files.content, then the call of files.retrieve
fetch_content(response) ==
    /\ tool.pc = "content"
    /\ tool' =
          IF response.kind = "raise"
          THEN [tool EXCEPT !.pc = "returned", !.failed = "content",
                            !.result = ErrorDocument(tool.id, <<"c">>)]
          ELSE [tool EXCEPT !.pc = "retrieve", !.content_response = response,
                            !.api_calls = @ \o <<"retrieve">>]
    /\ ToolFrame

\* lines 97-135: the answer of files.retrieve and the document made
fetch_retrieve(info) ==
    /\ tool.pc = "retrieve"
    /\ tool' =
          IF info.kind = "raise"
          THEN [tool EXCEPT !.pc = "returned", !.failed = "retrieve",
                            !.result = ErrorDocument(tool.id, <<"r">>)]
          ELSE IF JoinRaises(tool.content_response)
          THEN [tool EXCEPT !.pc = "returned", !.failed = "join",
                            !.result = ErrorDocument(tool.id, <<"j">>)]
          ELSE [tool EXCEPT !.pc = "returned",
                            !.result = Document(tool.id, tool.content_response, info)]
    /\ ToolFrame

NextFetch ==
    \/ fetch
    \/ \E response \in ContentResponses : fetch_content(response)
    \/ \E info \in FileInfos : fetch_retrieve(info)

SpecFetch == InitFetch /\ [][NextFetch]_vars

----------------------------------------------------------------------------
(* Claims checked under SpecFetch                                           *)

FetchEnded == tool.pc \in {"returned", "raised"}

FetchRefused == tool.id = <<>> \/ ~tool.openai_client \/ tool.vector_store_id = ""

\* C16: an empty id, a missing client or a missing store id raises ValueError
\* before any call; otherwise fetch returns a document whose id is the one
\* asked for and whose url ends with it, and a failure of the content or the
\* retrieve call gives the error document, title 'Error retrieving document
\* <id>' and metadata None, not an exception.
C16_FetchContract ==
    /\ FetchRefused => tool.api_calls = <<>>
    /\ FetchEnded =>
        IF FetchRefused
        THEN tool.pc = "raised" /\ tool.raised = "ValueError"
        ELSE /\ tool.pc = "returned"
             /\ tool.result.id = tool.id
             /\ EndsWith(tool.result.url, tool.id)
             /\ tool.failed \in {"content", "retrieve"} =>
                   /\ tool.result.title = ErrorTitle \o tool.id
                   /\ tool.result.metadata = "None"

\* the error document returned after files.content answered and
\* files.retrieve failed
C16_Witness ==
    /\ tool.pc = "returned"
    /\ tool.failed = "retrieve"
    /\ tool.api_calls = <<"content", "retrieve">>
    /\ tool.content_response.kind = "return"
    /\ tool.result.id = <<"f", "1">>

----------------------------------------------------------------------------
(* research-agent/utils/streaming.py: stream_demo (lines 11-199).  The user *)
(* types queries and answers; the agency is a collaborator whose stream     *)
(* yields events, ends, or raises.  An event is a switch of agent, a text   *)
(* delta, an error dict, or another event.                                  *)

\* len(full_text) > 100 (line 183)
SaveMin == 100

MaxEvents == 3

MaxRounds == 1

ClarifyingAgent == "Clarifying Questions Agent"

ResearchAgent == "Research Agent"

NoPreference == <<"N","o"," ","p","r","e","f","e","r","e","n","c","e",".">>

\* the texts a delta may carry: nothing, SaveMin letters, one letter, blanks
\* over SaveMin, and JSON texts
Letters == [k \in 1..SaveMin |-> "x"]

Letter == <<"x">>

Blanks == [k \in 1..(SaveMin + 1) |-> " "]

JsonOneQuestion == <<"{","\"","q","u","e","s","t","i","o","n","s","\"",":"," ","[","\"","a","\"","]","}">>

JsonNoQuestions == <<"{","\"","q","u","e","s","t","i","o","n","s","\"",":"," ","[","]","}">>

JsonStringQuestions == <<"{","\"","q","u","e","s","t","i","o","n","s","\"",":"," ","\"","a","b","\"","}">>

JsonArray == <<"[","1","]">>

Deltas == {<<>>, Letters, Letter, Blanks, JsonOneQuestion, JsonNoQuestions,
           JsonStringQuestions, JsonArray}

EventsWith(deltas) ==
    {[type |-> "switch", agent |-> a, delta |-> <<>>] : a \in {ClarifyingAgent, ResearchAgent}}
        \cup {[type |-> "delta", agent |-> "", delta |-> d] : d \in deltas}
        \cup {[type |-> "error", agent |-> "", delta |-> <<>>],
              [type |-> "other", agent |-> "", delta |-> <<>>]}

\* the events of the stream of the query
StreamEvents == EventsWith(Deltas)

\* the events of the stream of the clarifications
FollowUpEvents == EventsWith({<<>>, Letters, Letter})

\* json.loads on the texts that deltas can make up: the four JSON texts are
\* JSON, and no other concatenation of deltas is
json_loads(text) ==
    CASE text = JsonOneQuestion -> [kind |-> "object", questions |-> "list", items |-> <<(<<"a">>)>>]
      [] text = JsonNoQuestions -> [kind |-> "object", questions |-> "list", items |-> <<>>]
      [] text = JsonStringQuestions ->
            [kind |-> "object", questions |-> "str", items |-> <<(<<"a">>), (<<"b">>)>>]
      [] text = JsonArray -> [kind |-> "array", questions |-> "none", items |-> <<>>]
      [] OTHER -> [kind |-> "JSONDecodeError", questions |-> "none", items |-> <<>>]

\* what the user types at the prompt, and as an answer
TypedQueries == {<<" ","q","u","i","t">>, <<"Q">>, <<" ">>, <<>>, <<"h","i"," ">>}

TypedAnswers == {<<>>, <<" ">>, <<"y">>}

\* f"**{q}**\n{ans}" (line 106)
AnswerLine(question, typed) ==
    <<"*", "*">> \o question \o <<"*", "*", "\n">>
        \o (IF Strip(typed) = <<>> THEN NoPreference ELSE Strip(typed))

RECURSIVE JoinAnswers(_)
\* "\n\n".join(answers) (line 109)
JoinAnswers(answers) ==
    IF answers = <<>> THEN <<>>
    ELSE IF Len(answers) = 1 THEN answers[1]
    ELSE answers[1] \o <<"\n", "\n">> \o JoinAnswers(Tail(answers))

NoDemo == [pc |-> "idle"]

DemoFrame == UNCHANGED <<url_references, reference_counter, call, threads, file,
                         doc, request, tool>>

\* log: what the loop did since the last prompt
Did(what, arg) == [what |-> what, arg |-> arg]

InitDemo ==
    /\ InitInstance
    /\ call = NoCall
    /\ threads = <<>>
    /\ file = NoFile
    /\ doc = NoDoc
    /\ request = NoRequest
    /\ tool = NoTool
    /\ demo \in {[pc |-> "prompt", save_pdf |-> b, round |-> 0, events |-> 0,
                  query |-> <<>>, full_text |-> <<>>, clarifying_text |-> <<>>,
                  current_agent |-> "None", research_completed |-> FALSE,
                  stream_error |-> FALSE, log |-> <<>>] : b \in BOOLEAN}

\* lines 24-44: a query is typed; quit ends the loop, an empty query starts it
\* again, another query resets the locals and opens the stream
Prompt(typed) ==
    /\ demo.pc = "prompt"
    /\ demo.round < MaxRounds
    /\ LET query == Strip(typed)
       IN demo' =
            IF lower(query) \in {<<"q", "u", "i", "t">>, <<"e", "x", "i", "t">>, <<"q">>}
            THEN [demo EXCEPT !.pc = "ended", !.round = @ + 1, !.query = query,
                              !.log = <<Did("query", query)>>]
            ELSE IF query = <<>>
            THEN [demo EXCEPT !.round = @ + 1, !.query = query,
                              !.log = <<Did("query", query)>>]
            ELSE [demo EXCEPT !.pc = "stream", !.round = @ + 1, !.events = 0,
                              !.query = query, !.full_text = <<>>,
                              !.clarifying_text = <<>>, !.current_agent = "None",
                              !.research_completed = FALSE, !.stream_error = FALSE,
                              !.log = <<Did("query", query),
                                        Did("get_response_stream", query)>>]
    /\ DemoFrame

\* lines 44-88: one event of the first stream
StreamEvent(event) ==
    /\ demo.pc = "stream"
    /\ demo.events < MaxEvents
    /\ demo' =
          CASE event.type = "switch" ->
                  [demo EXCEPT !.events = @ + 1, !.current_agent = event.agent]
            [] event.type = "delta" /\ event.delta # <<>> ->
                  IF demo.current_agent = ClarifyingAgent
                  THEN [demo EXCEPT !.events = @ + 1, !.clarifying_text = @ \o event.delta]
                  ELSE [demo EXCEPT !.events = @ + 1, !.full_text = @ \o event.delta,
                                    !.research_completed =
                                        @ \/ demo.current_agent = ResearchAgent]
            [] event.type = "error" ->
                  [demo EXCEPT !.pc = "clarify", !.log = @ \o <<Did("stream_end", <<>>)>>]
            [] OTHER -> [demo EXCEPT !.events = @ + 1]
    /\ DemoFrame

\* the first stream is exhausted, or raises (lines 89-90)
StreamEnd(raises) ==
    /\ demo.pc = "stream"
    /\ demo' = [demo EXCEPT !.pc = "clarify", !.stream_error = raises,
                            !.log = @ \o <<Did("stream_end", <<>>)>>]
    /\ DemoFrame

\* lines 93-119 and 168-171, 195-198: the clarifying text is parsed; answers
\* are typed and the second stream opened, or the text is taken as research,
\* or an exception ends the round
Clarify(typed) ==
    /\ demo.pc = "clarify"
    /\ LET text == Strip(demo.clarifying_text)
           clarification_data == json_loads(text)
           answers == [k \in 1..Len(clarification_data.items) |->
                          AnswerLine(clarification_data.items[k], typed[k])]
       IN /\ typed \in [1..Len(clarification_data.items) -> TypedAnswers]
          /\ demo' =
               IF text = <<>> THEN [demo EXCEPT !.pc = "finish"]
               ELSE IF clarification_data.kind = "JSONDecodeError"
               THEN [demo EXCEPT !.pc = "finish",
                                 !.full_text = @ \o demo.clarifying_text,
                                 !.research_completed = TRUE]
               ELSE IF clarification_data.kind # "object"
               THEN [demo EXCEPT !.pc = "prompt"]
               ELSE IF clarification_data.items = <<>>
               THEN [demo EXCEPT !.pc = "finish"]
               ELSE [demo EXCEPT !.pc = "stream2", !.events = 0, !.current_agent = "None",
                                 !.log = @ \o <<Did("get_response_stream",
                                                    JoinAnswers(answers))>>]
    /\ DemoFrame

\* lines 117-165: one event of the second stream
Stream2Event(event) ==
    /\ demo.pc = "stream2"
    /\ demo.events < MaxEvents
    /\ demo' =
          CASE event.type = "switch" ->
                  [demo EXCEPT !.events = @ + 1, !.current_agent = event.agent]
            [] event.type = "delta" /\ event.delta # <<>> ->
                  [demo EXCEPT !.events = @ + 1, !.full_text = @ \o event.delta,
                               !.research_completed =
                                   @ \/ demo.current_agent = ResearchAgent]
            [] OTHER -> [demo EXCEPT !.events = @ + 1]
    /\ DemoFrame

\* the second stream is exhausted, or raises (lines 166-167)
Stream2End(raises) ==
    /\ demo.pc = "stream2"
    /\ demo' = [demo EXCEPT !.pc = "finish", !.stream_error = @ \/ raises,
                            !.log = @ \o <<Did("stream_end", <<>>)>>]
    /\ DemoFrame

\* lines 173-190
Finish ==
    /\ demo.pc = "finish"
    /\ demo' =
          IF /\ demo.save_pdf
             /\ Strip(demo.full_text) # <<>>
             /\ demo.research_completed
             /\ Len(demo.full_text) > SaveMin
          THEN [demo EXCEPT !.pc = "prompt", !.log = @ \o <<Did("save_pdf", demo.query)>>]
          ELSE [demo EXCEPT !.pc = "prompt"]
    /\ DemoFrame

NextDemo ==
    \/ \E typed \in TypedQueries : Prompt(typed)
    \/ \E event \in StreamEvents : StreamEvent(event)
    \/ \E raises \in BOOLEAN : StreamEnd(raises)
    \/ \E typed \in UNION {[1..n -> TypedAnswers] : n \in 0..2} : Clarify(typed)
    \/ \E event \in FollowUpEvents : Stream2Event(event)
    \/ \E raises \in BOOLEAN : Stream2End(raises)
    \/ Finish

SpecDemo == InitDemo /\ [][NextDemo]_vars

----------------------------------------------------------------------------
(* Claims checked under SpecDemo                                            *)

LogOf(what) == {k \in 1..Len(demo.log) : demo.log[k].what = what}

\* the typed query, trimmed, is quit, exit or q in any case of letters
EndsLoop(query) ==
    \E word \in {<<"q", "u", "i", "t">>, <<"e", "x", "i", "t">>, <<"q">>} :
        /\ Len(query) = Len(word)
        /\ \A k \in 1..Len(word) : SameLetter(query[k], word[k])

\* text is the JSON text with one question in a list, whitespace around it
\* set aside: of the texts deltas can make up, the JSON with a non-empty
\* questions list
HasQuestionList(text) ==
    \E i \in 1..Len(text) :
        /\ HasAt(text, i, JsonOneQuestion)
        /\ \A k \in 1..Len(text) :
              (k < i \/ k >= i + Len(JsonOneQuestion)) => IsSpace(text[k])

\* the save came last, after every stream opened had ended, with research
\* completed and a text that is not blank and longer than SaveMin
SaveRule ==
    /\ Cardinality(LogOf("save_pdf")) <= 1
    /\ \A k \in LogOf("save_pdf") :
          /\ k = Len(demo.log)
          /\ Cardinality(LogOf("stream_end")) = Cardinality(LogOf("get_response_stream"))
          /\ demo.research_completed
          /\ \E j \in 1..Len(demo.full_text) : ~IsSpace(demo.full_text[j])
          /\ Len(demo.full_text) > SaveMin

\* an empty query, or quit, exit, q: neither a stream nor a save
SkipRule ==
    (demo.log # <<>> /\ (demo.log[1].arg = <<>> \/ EndsLoop(demo.log[1].arg))) =>
        Len(demo.log) = 1

\* at most two streams; the second after the first ended
TwoStreamsRule ==
    /\ Cardinality(LogOf("get_response_stream")) <= 2
    /\ \A j, k \in LogOf("get_response_stream") :
          j < k => \E e \in LogOf("stream_end") : j < e /\ e < k

\* C17: per query save_pdf is called at most once, after all streaming has
\* ended, only with research completed and a text that is not blank and over
\* 100 characters; never for an empty query or quit / exit / q, which open no
\* stream; at most two streams are opened, the second only after the first
\* ended with a clarifying text that parsed as JSON with a non-empty list of
\* questions.
C17_SaveAndStreams ==
    /\ SaveRule
    /\ SkipRule
    /\ TwoStreamsRule
    /\ Cardinality(LogOf("get_response_stream")) = 2 => HasQuestionList(demo.clarifying_text)

====
